---- MODULE Spec2Model ----
(***************************************************************************)
(* Model of docs/port_usage_report.py (home-lab-infra-monitor): the        *)
(* container port-mapping collector, the port-usage correlator, the report *)
(* builder, the emitters, the runtime port checker and main; and of the     *)
(* service process app/: the cached settings (config.py), the NVMe status   *)
(* endpoint (api/nvme.py, services/nvme_monitor.py) and the Fritz!Box host  *)
(* status (services/fritz_monitor.py).                                      *)
(*                                                                         *)
(* Text is a sequence of one-character strings, so that Python's str       *)
(* methods (strip, splitlines, split, rsplit, int) are computed on the     *)
(* characters as the code computes them.  An Optional[...] value is a      *)
(* sequence of length at most one: <<>> is None, <<v>> is v.               *)
(***************************************************************************)
EXTENDS Integers, Sequences, FiniteSets, TLC

(***************************************************************************)
(* Bounds of the model.                                                    *)
(***************************************************************************)
\* container lines in one listing
MaxLines == 2
\* port entries in one listing, over all its lines
MaxEntries == 2
\* socket-table entries returned by one enumeration
MaxConns == 2
\* calls of get_settings in one process
MaxCalls == 3

None == <<>>
Some(v) == <<v>>

(***************************************************************************)
(* Python str primitives on character sequences.                           *)
(***************************************************************************)
TAB == "\t"
NL == "\n"
SP == " "

\* str.isspace for one character
IsSpace(c) == c \in {SP, TAB, NL}

\* the code point of a character, for str comparison
Ord(c) ==
    CASE c = TAB -> 9  [] c = NL -> 10 [] c = SP -> 32 [] c = "+" -> 43
      [] c = "," -> 44 [] c = "-" -> 45 [] c = "." -> 46 [] c = "/" -> 47
      [] c = "0" -> 48 [] c = "1" -> 49 [] c = "2" -> 50 [] c = "3" -> 51
      [] c = "4" -> 52 [] c = "5" -> 53 [] c = "6" -> 54 [] c = "7" -> 55
      [] c = "8" -> 56 [] c = "9" -> 57 [] c = ":" -> 58 [] c = ">" -> 62
      [] c = "C" -> 67 [] c = "D" -> 68 [] c = "P" -> 80 [] c = "T" -> 84
      [] c = "U" -> 85 [] c = "[" -> 91 [] c = "]" -> 93
      [] c = "a" -> 97 [] c = "b" -> 98 [] c = "c" -> 99 [] c = "d" -> 100
      [] c = "e" -> 101 [] c = "g" -> 103 [] c = "h" -> 104 [] c = "i" -> 105
      [] c = "n" -> 110 [] c = "o" -> 111 [] c = "p" -> 112 [] c = "r" -> 114
      [] c = "t" -> 116 [] c = "u" -> 117 [] c = "x" -> 120

\* str.lower for one character
LowerChar(c) ==
    CASE c = "C" -> "c" [] c = "D" -> "d" [] c = "P" -> "p"
      [] c = "T" -> "t" [] c = "U" -> "u" [] OTHER -> c

Lower(s) == [i \in 1..Len(s) |-> LowerChar(s[i])]

\* a < b for two str values: lexicographic by code point
RECURSIVE StrLess(_, _)
StrLess(a, b) ==
    IF b = <<>> THEN FALSE
    ELSE IF a = <<>> THEN TRUE
    ELSE IF Ord(Head(a)) # Ord(Head(b)) THEN Ord(Head(a)) < Ord(Head(b))
    ELSE StrLess(Tail(a), Tail(b))

RECURSIVE LStrip(_)
LStrip(s) == IF s # <<>> /\ IsSpace(Head(s)) THEN LStrip(Tail(s)) ELSE s

RECURSIVE RStrip(_)
RStrip(s) ==
    IF s # <<>> /\ IsSpace(s[Len(s)]) THEN RStrip(SubSeq(s, 1, Len(s) - 1)) ELSE s

\* str.strip()
Strip(s) == RStrip(LStrip(s))

\* the positions at which sub occurs in s
Occurrences(s, sub) ==
    {i \in 1..(Len(s) - Len(sub) + 1) : SubSeq(s, i, i + Len(sub) - 1) = sub}

\* sub in s
Contains(s, sub) == Occurrences(s, sub) # {}

SetMin(S) == CHOOSE x \in S : \A y \in S : x <= y
SetMax(S) == CHOOSE x \in S : \A y \in S : x >= y

\* s.split(sep) for a non-empty separator: all pieces, empty ones included
RECURSIVE Split(_, _)
Split(s, sep) ==
    IF ~Contains(s, sep) THEN <<s>>
    ELSE LET i == SetMin(Occurrences(s, sep))
         IN  <<SubSeq(s, 1, i - 1)>> \o Split(SubSeq(s, i + Len(sep), Len(s)), sep)

\* s.split(sep, 1): at the first occurrence only
Split1(s, sep) ==
    IF ~Contains(s, sep) THEN <<s>>
    ELSE LET i == SetMin(Occurrences(s, sep))
         IN  <<SubSeq(s, 1, i - 1), SubSeq(s, i + Len(sep), Len(s))>>

\* s.rsplit(sep, 1): at the last occurrence only
RSplit1(s, sep) ==
    IF ~Contains(s, sep) THEN <<s>>
    ELSE LET i == SetMax(Occurrences(s, sep))
         IN  <<SubSeq(s, 1, i - 1), SubSeq(s, i + Len(sep), Len(s))>>

\* str.splitlines(): pieces between line breaks, no empty piece after a final break
SplitLines(s) ==
    IF s = <<>> THEN <<>>
    ELSE LET pieces == Split(s, <<NL>>)
         IN  IF pieces[Len(pieces)] = <<>>
             THEN SubSeq(pieces, 1, Len(pieces) - 1) ELSE pieces

IsDigit(c) == c \in {"0", "1", "2", "3", "4", "5", "6", "7", "8", "9"}

DigitVal(c) == Ord(c) - Ord("0")

RECURSIVE DigitsValue(_, _)
DigitsValue(s, acc) ==
    IF s = <<>> THEN acc ELSE DigitsValue(Tail(s), 10 * acc + DigitVal(Head(s)))

\* int(s): surrounding whitespace and one sign are accepted, then decimal digits;
\* anything else is a ValueError (ok = FALSE)
ParseInt(s) ==
    LET t == Strip(s)
        signed == t # <<>> /\ Head(t) \in {"+", "-"}
        digits == IF signed THEN Tail(t) ELSE t
    IN  IF digits # <<>> /\ \A i \in 1..Len(digits) : IsDigit(digits[i])
        THEN [ok |-> TRUE,
              val |-> IF signed /\ Head(t) = "-"
                      THEN 0 - DigitsValue(digits, 0) ELSE DigitsValue(digits, 0)]
        ELSE [ok |-> FALSE, val |-> 0]

\* sep.join(parts)
RECURSIVE Join(_, _)
Join(parts, sep) ==
    IF parts = <<>> THEN <<>>
    ELSE IF Len(parts) = 1 THEN parts[1]
    ELSE parts[1] \o sep \o Join(Tail(parts), sep)

(***************************************************************************)
(* Text constants of the model.                                            *)
(***************************************************************************)
TCP == <<"t", "c", "p">>
UDP == <<"u", "d", "p">>
ProtoOther == <<"o", "t", "h", "e", "r">>
IP4Any == <<"0", ".", "0", ".", "0", ".", "0">>
IP6Any == <<":", ":">>
ARROW == <<"-", ">">>

\* "0.0.0.0:80->80/tcp"
EntryV4 == IP4Any \o <<":", "8", "0">> \o ARROW \o <<"8", "0", "/">> \o TCP
\* "[::]:80->80/tcp"
EntryV6 == <<"[">> \o IP6Any \o <<"]", ":", "8", "0">> \o ARROW \o <<"8", "0", "/">> \o TCP
\* "80/tcp": an exposed port that is not published
EntryExposed == <<"8", "0", "/">> \o TCP
\* "0.0.0.0:8-9->8-9/tcp": a published port range
EntryRange == IP4Any \o <<":", "8", "-", "9">> \o ARROW \o <<"8", "-", "9", "/">> \o TCP
\* "0.0.0.0:9->9/UDP"
EntryUdp == IP4Any \o <<":", "9">> \o ARROW \o <<"9", "/", "U", "D", "P">>

\* "0.0.0.0:80->9/tcp": the host address and port of EntryV4, another container port
EntryV4Alt == IP4Any \o <<":", "8", "0">> \o ARROW \o <<"9", "/">> \o TCP
\* "80->80/tcp": an arrow with no host address before the host port
EntryNoHost == <<"8", "0">> \o ARROW \o <<"8", "0", "/">> \o TCP

EntryTexts ==
    {EntryV4, EntryV6, EntryExposed, EntryRange, EntryUdp, EntryV4Alt, EntryNoHost}

NameWeb == <<"w", "e", "b">>
NameDb == <<"d", "b">>
ContainerNames == {NameWeb, NameDb}
ImageText == <<"i", "m", "g">>

\* the container id docker prints for the i-th line of a listing
CidOf(i) == <<"c", CHOOSE d \in {"1", "2", "3", "4", "5", "6", "7", "8", "9"} : DigitVal(d) = i>>

(***************************************************************************)
(* docker ps --format '{{.Names}}\t{{.ID}}\t{{.Image}}\t{{.Ports}}': what  *)
(* the command prints for a list of containers, one line each, every line  *)
(* ended by a line break.                                                  *)
(***************************************************************************)
RenderLine(c) ==
    Join(<<c.name, c.cid, c.image, Join(c.entries, <<",", SP>>)>>, <<TAB>>) \o <<NL>>

RECURSIVE RenderListing(_)
RenderListing(cs) ==
    IF cs = <<>> THEN <<>> ELSE RenderLine(Head(cs)) \o RenderListing(Tail(cs))

(***************************************************************************)
(* collect_docker_port_mappings                                            *)
(***************************************************************************)
DockerCommand == "docker ps --format '{{.Names}}\\t{{.ID}}\\t{{.Image}}\\t{{.Ports}}'"

\* meta as initialised before the command runs
MetaInit ==
    [available |-> FALSE, error |-> None, containers_total |-> 0,
     containers_with_published_ports |-> 0, command |-> DockerCommand]

\* container_port: int(container_port_str), or the raw string on ValueError
ContainerPort(container_port_str) ==
    LET n == ParseInt(container_port_str)
    IN  IF n.ok THEN [kind |-> "int", int |-> n.val, raw |-> <<>>]
        ELSE [kind |-> "str", int |-> 0, raw |-> container_port_str]

\* an iteration of the loop over the entries that ends in a continue
EntrySkip == [ok |-> FALSE, key |-> <<>>, container_port |-> ContainerPort(<<>>)]

\* right: "<container_port>/<proto>", or the whole of it with no proto
ContainerSide(right) ==
    IF Contains(right, <<"/">>) THEN Split1(right, <<"/">>) ELSE <<right, <<>>>>

\* proto.lower().strip() or "tcp"
ProtoOrTcp(proto) == IF Strip(Lower(proto)) = <<>> THEN TCP ELSE Strip(Lower(proto))

\* an IPv6 host address loses its brackets
Unbracket(host_ip) ==
    IF host_ip # <<>> /\ Head(host_ip) = "[" /\ host_ip[Len(host_ip)] = "]"
    THEN SubSeq(host_ip, 2, Len(host_ip) - 1) ELSE host_ip

\* variant that takes a host port that is no integer as port 0
EntryKeyAnyPort(proto, host_ip, host_port, container_port_str) ==
    [ok |-> TRUE, key |-> <<proto, host_ip, host_port.val>>,
     container_port |-> ContainerPort(container_port_str)]

\* host_port = int(host_port_str), continue on ValueError; then the key
EntryKey(proto, host_ip, host_port, container_port_str) ==
    IF ~host_port.ok THEN EntrySkip
    ELSE [ok |-> TRUE, key |-> <<proto, host_ip, host_port.val>>,
          container_port |-> ContainerPort(container_port_str)]

\* hp is left.rsplit(":", 1), cp is (container_port_str, proto)
EntryHost(hp, cp) ==
    EntryKey(ProtoOrTcp(cp[2]), Unbracket(Strip(hp[1])), ParseInt(hp[2]), cp[1])

EntrySides(left, right) ==
    IF ~Contains(left, <<":">>) THEN EntrySkip
    ELSE EntryHost(RSplit1(left, <<":">>), ContainerSide(right))

\* lr is entry.split("->", 1)
EntryArrow(lr) == EntrySides(Strip(lr[1]), Strip(lr[2]))

\* One iteration of the loop over the entries of a ports field: the key and the
\* container port the entry publishes, or ok = FALSE when the iteration ends in
\* a continue.
ParseEntry(entry) ==
    IF ~Contains(entry, ARROW) THEN EntrySkip ELSE EntryArrow(Split1(entry, ARROW))

\* variant of the assignment that keeps the entry a key already has
MapPutKeepFirst(mapping, key, info) ==
    [k \in DOMAIN mapping \cup {key} |-> IF k \in DOMAIN mapping THEN mapping[k] ELSE info]

\* mapping[key] = info
MapPut(mapping, key, info) ==
    [k \in DOMAIN mapping \cup {key} |-> IF k = key THEN info ELSE mapping[k]]

\* [e.strip() for e in ports_str.split(",") if e.strip()]
RECURSIVE StripNonEmpty(_)
StripNonEmpty(pieces) ==
    IF pieces = <<>> THEN <<>>
    ELSE IF Strip(Head(pieces)) = <<>> THEN StripNonEmpty(Tail(pieces))
    ELSE <<Strip(Head(pieces))>> \o StripNonEmpty(Tail(pieces))

PortEntries(ports_str) == StripNonEmpty(Split(ports_str, <<",">>))

\* the body of the loop over the entries, e being ParseEntry(entry):
\* acc is [mapping, has_published]
EntryStep(acc, entry, e, name, cid, image) ==
    IF e.ok
    THEN [mapping |-> MapPut(acc.mapping, e.key,
                             [container_name |-> name, container_id |-> cid,
                              image |-> image, port_spec |-> entry,
                              container_port |-> e.container_port]),
          has_published |-> TRUE]
    ELSE acc

RECURSIVE EntryLoop(_, _, _, _, _)
EntryLoop(acc, entries, name, cid, image) ==
    IF entries = <<>> THEN acc
    ELSE EntryLoop(EntryStep(acc, Head(entries), ParseEntry(Head(entries)),
                             name, cid, image),
                   Tail(entries), name, cid, image)

\* [p.strip() for p in line.split("\t")]
StripAll(ps) == [i \in 1..Len(ps) |-> Strip(ps[i])]

LineParts(line) == StripAll(Split(line, <<TAB>>))

\* the set the code keeps the publishing containers in: a set of names
PublishedAdd(published, name) == published \cup {name}

\* the end of an iteration over the lines, r being the result of its entry loop
LineResult(st, name, r) ==
    [mapping |-> r.mapping,
     containers_total |-> st.containers_total + 1,
     published |-> IF r.has_published THEN PublishedAdd(st.published, name)
                   ELSE st.published]

\* a line of four fields or more: counted, then its entries
ProcessContainer(st, name, cid, image, ports_str) ==
    IF ports_str = <<>> THEN [st EXCEPT !.containers_total = @ + 1]
    ELSE LineResult(st, name,
                    EntryLoop([mapping |-> st.mapping, has_published |-> FALSE],
                              PortEntries(ports_str), name, cid, image))

ProcessParts(st, parts) ==
    IF Len(parts) < 4 THEN st
    ELSE ProcessContainer(st, parts[1], parts[2], parts[3], parts[4])

\* One iteration of the loop over the lines: st is
\* [mapping, containers_total, published].
ProcessLine(st, line) ==
    IF Strip(line) = <<>> THEN st ELSE ProcessParts(st, LineParts(line))

RECURSIVE LineLoop(_, _)
LineLoop(st, lines) ==
    IF lines = <<>> THEN st ELSE LineLoop(ProcessLine(st, Head(lines)), Tail(lines))

EmptyMapping == [k \in {} |-> None]

\* result.stdout.strip()
StdoutStrip(stdout) == Strip(stdout)

\* variant of the FileNotFoundError branch that reports docker as available
DockerMissingAvailable(meta) ==
    [meta EXCEPT !.error = Some("docker binary not found"), !.available = TRUE]

\* meta["error"] on FileNotFoundError
DockerMissing(meta) == [meta EXCEPT !.error = Some("docker binary not found")]

\* meta["error"] on CalledProcessError
DockerFailed(meta) == [meta EXCEPT !.error = Some("docker ps failed")]

\* the return after the loop over the lines
DockerResult(st) ==
    [mapping |-> st.mapping,
     meta |-> [MetaInit EXCEPT !.available = TRUE,
                               !.containers_total = st.containers_total,
                               !.containers_with_published_ports =
                                   Cardinality(st.published)]]

DockerParse(output) ==
    IF output = <<>>
    THEN [mapping |-> EmptyMapping, meta |-> [MetaInit EXCEPT !.available = TRUE]]
    ELSE DockerResult(LineLoop([mapping |-> EmptyMapping, containers_total |-> 0,
                                published |-> {}],
                               SplitLines(output)))

\* The outcomes of subprocess.run(cmd, check=True) the function handles:
\* run.kind is "missing" (FileNotFoundError), "failed" (CalledProcessError) or
\* "ok" with run.stdout.
CollectDockerPortMappings(run) ==
    IF run.kind = "missing" THEN [mapping |-> EmptyMapping, meta |-> DockerMissing(MetaInit)]
    ELSE IF run.kind = "failed" THEN [mapping |-> EmptyMapping, meta |-> DockerFailed(MetaInit)]
    ELSE DockerParse(StdoutStrip(run.stdout))

(***************************************************************************)
(* collect_port_usage                                                      *)
(*                                                                         *)
(* A socket-table entry (psutil sconn) is                                  *)
(*   [status, laddr, type, pid, lookup]                                    *)
(* laddr is None (an empty address tuple) or [ip, port]; pid is None or a  *)
(* process id; lookup is how the per-process lookups of that entry end:    *)
(* "ok", or the call that raises NoSuchProcess, AccessDenied or            *)
(* ZombieProcess.                                                          *)
(***************************************************************************)
CONN_LISTEN == "LISTEN"

LookupOutcomes == {"ok", "process_raises", "name_raises", "cmdline_raises", "username_raises"}

\* what p.name(), " ".join(p.cmdline()) and p.username() return for a process
ProcAttr(attr, pid) == [attr |-> attr, pid |-> pid]

\* The try block of the per-process lookups: each assignment happens only if
\* its call, and every call before it, returned.
Attribution(pid, lookup) ==
    IF pid = None \/ pid = Some(0)
    THEN [process |-> None, cmdline |-> None, user |-> None]
    ELSE [process |-> IF lookup \in {"ok", "cmdline_raises", "username_raises"}
                      THEN Some(ProcAttr("name", pid[1])) ELSE None,
          cmdline |-> IF lookup \in {"ok", "username_raises"}
                      THEN Some(ProcAttr("cmdline", pid[1])) ELSE None,
          user    |-> IF lookup = "ok"
                      THEN Some(ProcAttr("username", pid[1])) ELSE None]

ProtoOf(type) ==
    IF type = "SOCK_STREAM" THEN TCP
    ELSE IF type = "SOCK_DGRAM" THEN UDP
    ELSE ProtoOther

\* variant of the lookup that matches on protocol and port alone
DockerLookupAnyIp(docker_map, proto, ip, port) ==
    IF \E k \in DOMAIN docker_map : k[1] = proto /\ k[3] = port
    THEN Some(docker_map[CHOOSE k \in DOMAIN docker_map : k[1] = proto /\ k[3] = port])
    ELSE None

\* docker_map.get(key)
DockerLookup(docker_map, proto, ip, port) ==
    IF <<proto, ip, port>> \in DOMAIN docker_map
    THEN Some(docker_map[<<proto, ip, port>>]) ELSE None

\* variant of the loop that leaves out an entry whose per-process lookup fails
ListeningLookupOk(conn) ==
    conn.status = CONN_LISTEN /\ conn.laddr # None /\ conn.lookup = "ok"

\* variant of the loop that keeps the entries of every status
ListeningAnyStatus(conn) == conn.laddr # None

\* the entries the loop does not skip
Listening(conn) == conn.status = CONN_LISTEN /\ conn.laddr # None

\* the record the loop body appends for an entry it does not skip
MakeRecord(conn, docker_map) ==
    LET ip == conn.laddr[1].ip
        port == conn.laddr[1].port
        proto == ProtoOf(conn.type)
        who == Attribution(conn.pid, conn.lookup)
        base == [proto |-> proto, ip |-> ip, port |-> port, status |-> conn.status,
                 pid |-> conn.pid, user |-> who.user, process |-> who.process,
                 cmdline |-> who.cmdline]
        docker_info == DockerLookup(docker_map, proto, ip, port)
    IN  IF docker_info # None
        THEN base @@ [docker_container_name |-> docker_info[1].container_name,
                      docker_container_id |-> docker_info[1].container_id,
                      docker_image |-> docker_info[1].image,
                      docker_port_spec |-> docker_info[1].port_spec,
                      docker_container_port |-> docker_info[1].container_port]
        ELSE base

RECURSIVE RecordLoop(_, _)
RecordLoop(conns, docker_map) ==
    IF conns = <<>> THEN <<>>
    ELSE IF Listening(Head(conns))
         THEN <<MakeRecord(Head(conns), docker_map)>> \o RecordLoop(Tail(conns), docker_map)
         ELSE RecordLoop(Tail(conns), docker_map)

\* variant of the sort key with the address before the port
SortKeyLessIpFirst(a, b) ==
    IF a.proto # b.proto THEN StrLess(a.proto, b.proto)
    ELSE IF a.ip # b.ip THEN StrLess(a.ip, b.ip)
    ELSE a.port < b.port

\* (a.proto, a.port, a.ip) < (b.proto, b.port, b.ip), as Python compares tuples
SortKeyLess(a, b) ==
    IF a.proto # b.proto THEN StrLess(a.proto, b.proto)
    ELSE IF a.port # b.port THEN a.port < b.port
    ELSE StrLess(a.ip, b.ip)

\* r put into the sorted sequence before the first record whose key is greater
RECURSIVE InsertSorted(_, _)
InsertSorted(sorted, r) ==
    IF sorted = <<>> THEN <<r>>
    ELSE IF SortKeyLess(r, Head(sorted)) THEN <<r>> \o sorted
    ELSE <<Head(sorted)>> \o InsertSorted(Tail(sorted), r)

\* records.sort(key=...): a stable sort
RECURSIVE SortFrom(_, _)
SortFrom(sorted, rest) ==
    IF rest = <<>> THEN sorted
    ELSE SortFrom(InsertSorted(sorted, Head(rest)), Tail(rest))

SortRecords(records) == SortFrom(<<>>, records)

CollectPortUsage(conns, docker_map) == SortRecords(RecordLoop(conns, docker_map))

(***************************************************************************)
(* get_ip_local_port_range                                                 *)
(*                                                                         *)
(* The source is [exists, readable, content].                              *)
(***************************************************************************)
\* content.split(): the pieces between runs of whitespace
RECURSIVE SplitWhitespace(_)
SplitWhitespace(s) ==
    LET t == LStrip(s)
        n == IF \E i \in 1..Len(t) : IsSpace(t[i])
             THEN SetMin({i \in 1..Len(t) : IsSpace(t[i])}) ELSE Len(t) + 1
    IN  IF t = <<>> THEN <<>>
        ELSE <<SubSeq(t, 1, n - 1)>> \o SplitWhitespace(SubSeq(t, n, Len(t)))

\* variant that takes the first and the last token, however many there are
GetIpLocalPortRangeAnyCount(src) ==
    IF ~src.exists THEN None
    ELSE IF ~src.readable THEN None
    ELSE LET tokens == SplitWhitespace(Strip(src.content))
         IN  IF tokens = <<>> THEN None
             ELSE IF ~ParseInt(tokens[1]).ok \/ ~ParseInt(tokens[Len(tokens)]).ok THEN None
             ELSE Some(<<ParseInt(tokens[1]).val, ParseInt(tokens[Len(tokens)]).val>>)

GetIpLocalPortRange(src) ==
    IF ~src.exists THEN None
    ELSE IF ~src.readable THEN None
    ELSE LET tokens == SplitWhitespace(Strip(src.content))
         IN  IF Len(tokens) # 2 THEN None
             ELSE IF ~ParseInt(tokens[1]).ok \/ ~ParseInt(tokens[2]).ok THEN None
             ELSE Some(<<ParseInt(tokens[1]).val, ParseInt(tokens[2]).val>>)

(***************************************************************************)
(* build_report, the emitters, check_port_free                             *)
(***************************************************************************)
AssembleReport(docker_meta_, records_, ip_range_) ==
    [schema_version |-> "1.1.0", script_version |-> "1.1.0",
     host |-> "hostname", generated_at |-> "now",
     ip_local_port_range |->
         IF ip_range_ # None
         THEN Some([low |-> ip_range_[1][1], high |-> ip_range_[1][2]]) ELSE None,
     docker |-> docker_meta_,
     ports |-> records_]

\* json.dumps(report, ensure_ascii=False, indent=2) written to the JSON path
JsonDocument(report_) == [format |-> "json", data |-> report_]

\* the page with json.dumps(report) embedded, written to the HTML path
HtmlDocument(report_) == [format |-> "html", data |-> report_]

\* What s.connect_ex((host, port)) does for each way the attempt can end: it
\* returns 0 on a connection, returns the errno of a failed connect() (refused,
\* timed out, host unreachable), and raises for a host name that does not resolve.
ConnectKinds == {"connected", "refused", "timed_out", "unreachable", "unresolved"}

ConnectEx(kind) ==
    CASE kind = "connected"   -> [raised |-> FALSE, result |-> 0]
      [] kind = "refused"     -> [raised |-> FALSE, result |-> 111]
      [] kind = "timed_out"   -> [raised |-> FALSE, result |-> 11]
      [] kind = "unreachable" -> [raised |-> FALSE, result |-> 113]
      [] kind = "unresolved"  -> [raised |-> TRUE, result |-> 0]

CheckPortFree(kind) ==
    LET r == ConnectEx(kind)
    IN  IF r.raised THEN FALSE ELSE r.result # 0

(***************************************************************************)
(* Inputs of the model.                                                    *)
(***************************************************************************)
SeqsUpTo(S, n) == UNION {[1..k -> S] : k \in 0..n}

\* The listings of at most l containers publishing at most e port entries in
\* all; the container of line i has id CidOf(i), and the first container is
\* the one named web (which of two names comes first changes nothing).
NamesAt(i) == IF i = 1 THEN {NameWeb} ELSE ContainerNames

RECURSIVE ListingsFrom(_, _, _)
ListingsFrom(i, l, e) ==
    IF l = 0 THEN {<<>>}
    ELSE {<<>>} \cup
         UNION {
           {<<[name |-> n, cid |-> CidOf(i), image |-> ImageText, entries |-> es]>> \o rest :
              rest \in ListingsFrom(i + 1, l - 1, e - Len(es))} :
           n \in NamesAt(i), es \in SeqsUpTo(EntryTexts, e)}

Listings == ListingsFrom(1, MaxLines, MaxEntries)

DockerRunOk(cs) == [kind |-> "ok", stdout |-> RenderListing(cs)]
DockerRunMissing == [kind |-> "missing", stdout |-> <<>>]
DockerRunFailed == [kind |-> "failed", stdout |-> <<>>]

Container(name, i, entries) ==
    [name |-> name, cid |-> CidOf(i), image |-> ImageText, entries |-> entries]

\* the listings the report runs are checked with
SampleListings ==
    { <<>>,
      <<Container(NameWeb, 1, <<EntryV4, EntryV6>>)>>,
      <<Container(NameWeb, 1, <<EntryV4>>), Container(NameDb, 2, <<EntryUdp>>)>> }

Conn(status, laddr, type, pid, lookup) ==
    [status |-> status, laddr |-> laddr, type |-> type, pid |-> pid, lookup |-> lookup]

Addr(ip, port) == Some([ip |-> ip, port |-> port])

\* the socket-table entries collect_port_usage is checked with
ConnKinds ==
    \* listeners of one process on every protocol, port and address
    { Conn(CONN_LISTEN, Addr(ip, port), type, Some(1), "ok") :
        ip \in {IP4Any, IP6Any}, port \in {9, 80}, type \in {"SOCK_STREAM", "SOCK_DGRAM"} }
    \cup
    \* other owners of one listening address, and lookups that fail
    { Conn(CONN_LISTEN, Addr(IP4Any, 80), "SOCK_STREAM", pl[1], pl[2]) :
        pl \in { <<None, "ok">>, <<Some(2), "ok">>, <<Some(1), "process_raises">>,
                 <<Some(1), "name_raises">>, <<Some(1), "cmdline_raises">>,
                 <<Some(1), "username_raises">> } }
    \cup
    \* entries the loop skips, and a socket type that is neither stream nor datagram
    { Conn("ESTABLISHED", Addr(IP4Any, 80), "SOCK_STREAM", Some(1), "ok"),
      Conn("NONE", Addr(IP4Any, 9), "SOCK_DGRAM", Some(1), "ok"),
      Conn(CONN_LISTEN, None, "SOCK_STREAM", None, "ok"),
      Conn(CONN_LISTEN, Addr(IP4Any, 80), "SOCK_RAW", None, "ok") }

\* the socket-table entries the report runs are checked with
ReportConnKinds ==
    { Conn(CONN_LISTEN, Addr(IP4Any, 80), "SOCK_STREAM", Some(1), "ok"),
      Conn(CONN_LISTEN, Addr(IP6Any, 80), "SOCK_STREAM", None, "ok"),
      Conn(CONN_LISTEN, Addr(IP4Any, 9), "SOCK_DGRAM", Some(2), "cmdline_raises"),
      Conn("ESTABLISHED", Addr(IP4Any, 80), "SOCK_STREAM", Some(1), "ok") }

\* /proc/sys/net/ipv4/ip_local_port_range
RangeSources ==
    { [exists |-> FALSE, readable |-> FALSE, content |-> <<>>],
      [exists |-> TRUE, readable |-> FALSE, content |-> <<>>],
      [exists |-> TRUE, readable |-> TRUE, content |-> <<"3", "2", TAB, "6", "0", NL>>],
      [exists |-> TRUE, readable |-> TRUE, content |-> <<"3", "2", NL>>],
      [exists |-> TRUE, readable |-> TRUE, content |-> <<"3", "2", SP, "x", NL>>],
      [exists |-> TRUE, readable |-> TRUE, content |-> <<"1", SP, "2", SP, "3", NL>>] }

\* the command lines: --html or not, --check-port or not
ArgSets == [html : BOOLEAN, check_port : {None, Some(80)}]

(***************************************************************************)
(* State.                                                                  *)
(***************************************************************************)
VARIABLES
    pc,            \* where the run is
    args,          \* parse_args()
    listing,       \* the containers docker lists
    docker_run,    \* how subprocess.run ended
    docker_map,    \* collect_docker_port_mappings()[0]
    docker_meta,   \* collect_docker_port_mappings()[1]
    connections,   \* psutil.net_connections(kind="inet")
    records,       \* collect_port_usage(docker_map)
    range_src,     \* the ephemeral port-range source
    report,        \* build_report()
    json_file,     \* content of the JSON path
    html_file,     \* content of the HTML path
    connects,      \* the connection attempts made, in order
    is_free,       \* check_port_free(host, port)
    exit_code,     \* what main returns, or 1 for an uncaught exception
    environ,       \* os.environ of the service process
    settings_cache,\* what lru_cache holds for get_settings
    calls,         \* the calls of get_settings made, in order
    nvme_reads,    \* how the calls of `nvme smart-log` ended, in order
    nvme_statuses, \* the list get_nvme_status builds
    nvme_response, \* the answer to GET /nvme/status
    pings,         \* how the calls of `ping` ended, in order
    fritz_statuses,\* the list get_fritz_status builds
    fritz_result   \* what get_fritz_status returned

\* the state of a run of port_usage_report.py, pc apart
reportvars == <<args, listing, docker_run, docker_map, docker_meta, connections,
                records, range_src, report, json_file, html_file, connects, is_free,
                exit_code>>

\* the state of the service process
appvars == <<environ, settings_cache, calls, nvme_reads, nvme_statuses,
             nvme_response, pings, fritz_statuses, fritz_result>>

vars == <<pc, reportvars, appvars>>

Idle ==
    /\ args = None
    /\ listing = <<>>
    /\ docker_run = None
    /\ docker_map = EmptyMapping
    /\ docker_meta = None
    /\ connections = None
    /\ records = None
    /\ range_src = None
    /\ report = None
    /\ json_file = None
    /\ html_file = None
    /\ connects = <<>>
    /\ is_free = None
    /\ exit_code = None

\* docker_map, docker_meta = collect_docker_port_mappings()
DockerReturns(result) ==
    /\ docker_map' = result.mapping
    /\ docker_meta' = Some(result.meta)

\* the service process before its first request; an unset variable is None
NoEnviron ==
    [HA_BASE_URL |-> None, HA_TOKEN |-> None, FRITZBOX_HOSTS |-> None,
     FRITZBOX_HOST |-> None, FRITZBOX_USERNAME |-> None, FRITZBOX_PASSWORD |-> None,
     NVME_DEVICES |-> None]

AppIdle ==
    /\ environ = NoEnviron
    /\ settings_cache = None
    /\ calls = <<>>
    /\ nvme_reads = <<>>
    /\ nvme_statuses = <<>>
    /\ nvme_response = None
    /\ pings = <<>>
    /\ fritz_statuses = <<>>
    /\ fritz_result = None

DockerReturned(result) ==
    /\ docker_map = result.mapping
    /\ docker_meta = Some(result.meta)

(***************************************************************************)
(* SpecDocker: collect_docker_port_mappings applied to one outcome of the  *)
(* listing command.                                                        *)
(***************************************************************************)
InitDocker == pc = "collect_docker" /\ Idle /\ AppIdle

DockerCollect(run, cs) ==
    /\ pc = "collect_docker"
    /\ listing' = cs
    /\ docker_run' = Some(run)
    /\ DockerReturns(CollectDockerPortMappings(run))
    /\ pc' = "docker_collected"
    /\ UNCHANGED <<args, connections, records, range_src, report, json_file,
                   html_file, connects, exit_code, is_free, appvars>>

DockerListed == \E cs \in Listings : DockerCollect(DockerRunOk(cs), cs)

DockerNotFound == DockerCollect(DockerRunMissing, <<>>)

DockerExitNonZero == DockerCollect(DockerRunFailed, <<>>)

NextDocker == DockerListed \/ DockerNotFound \/ DockerExitNonZero

SpecDocker == InitDocker /\ [][NextDocker]_vars

(***************************************************************************)
(* SpecPorts: collect_port_usage(docker_map) applied to one enumeration of *)
(* the socket table.                                                       *)
(***************************************************************************)
InitPorts ==
    /\ pc = "collect_ports"
    /\ \E cs \in SampleListings :
         /\ listing = cs
         /\ docker_run = Some(DockerRunOk(cs))
         /\ DockerReturned(CollectDockerPortMappings(DockerRunOk(cs)))
    /\ args = None /\ connections = None /\ records = None /\ range_src = None
    /\ report = None /\ json_file = None /\ html_file = None
    /\ connects = <<>> /\ is_free = None /\ exit_code = None
    /\ AppIdle

PortsCollect ==
    /\ pc = "collect_ports"
    /\ \E conns \in SeqsUpTo(ConnKinds, MaxConns) :
         /\ connections' = Some(conns)
         /\ records' = Some(CollectPortUsage(conns, docker_map))
    /\ pc' = "ports_collected"
    /\ UNCHANGED <<args, listing, docker_run, docker_map, docker_meta, range_src,
                   report, json_file, html_file, connects, exit_code, is_free, appvars>>

\* psutil.net_connections raises: nothing is returned
PortsEnumerationRaises ==
    /\ pc = "collect_ports"
    /\ pc' = "raised"
    /\ UNCHANGED <<args, listing, docker_run, docker_map, docker_meta, connections,
                   records, range_src, report, json_file, html_file, connects,
                   exit_code, is_free, appvars>>

NextPorts == PortsCollect \/ PortsEnumerationRaises

SpecPorts == InitPorts /\ [][NextPorts]_vars

(***************************************************************************)
(* Spec: one run of main.                                                  *)
(***************************************************************************)
Init == pc = "parse_args" /\ Idle /\ AppIdle

ParseArgs ==
    /\ pc = "parse_args"
    /\ \E a \in ArgSets : args' = Some(a)
    /\ pc' = "build_docker"
    /\ UNCHANGED <<listing, docker_run, docker_map, docker_meta, connections, records,
                   range_src, report, json_file, html_file, connects, exit_code, is_free, appvars>>

\* build_report: docker_map, docker_meta = collect_docker_port_mappings()
BuildDocker ==
    /\ pc = "build_docker"
    /\ \E run \in {DockerRunMissing, DockerRunFailed}
                    \cup {DockerRunOk(cs) : cs \in SampleListings} :
         /\ docker_run' = Some(run)
         /\ DockerReturns(CollectDockerPortMappings(run))
    /\ pc' = "build_ports"
    /\ UNCHANGED <<args, listing, connections, records, range_src, report, json_file,
                   html_file, connects, exit_code, is_free, appvars>>

\* variant of the step that correlates with an empty mapping
BuildPortsWithoutMap ==
    /\ pc = "build_ports"
    /\ \E conns \in SeqsUpTo(ReportConnKinds, MaxConns) :
         /\ connections' = Some(conns)
         /\ records' = Some(CollectPortUsage(conns, EmptyMapping))
    /\ pc' = "build_range"
    /\ UNCHANGED <<args, listing, docker_run, docker_map, docker_meta, range_src,
                   report, json_file, html_file, connects, exit_code, is_free, appvars>>

\* build_report: records = collect_port_usage(docker_map)
BuildPorts ==
    /\ pc = "build_ports"
    /\ \E conns \in SeqsUpTo(ReportConnKinds, MaxConns) :
         /\ connections' = Some(conns)
         /\ records' = Some(CollectPortUsage(conns, docker_map))
    /\ pc' = "build_range"
    /\ UNCHANGED <<args, listing, docker_run, docker_map, docker_meta, range_src,
                   report, json_file, html_file, connects, exit_code, is_free, appvars>>

\* variant in which main writes a report without ports before the exception
\* leaves it
BuildPortsRaisesAfterWrite ==
    /\ pc = "build_ports"
    /\ pc' = "raised"
    /\ exit_code' = Some(1)
    /\ json_file' = Some(JsonDocument(AssembleReport(docker_meta[1], <<>>, None)))
    /\ UNCHANGED <<args, listing, docker_run, docker_map, docker_meta, connections,
                   records, range_src, report, html_file, connects, is_free, appvars>>

\* psutil.net_connections raises: the exception leaves collect_port_usage,
\* build_report and main, and the interpreter exits with status 1
BuildPortsRaises ==
    /\ pc = "build_ports"
    /\ pc' = "raised"
    /\ exit_code' = Some(1)
    /\ UNCHANGED <<args, listing, docker_run, docker_map, docker_meta, connections,
                   records, range_src, report, json_file, html_file, connects, is_free, appvars>>

\* build_report: ip_range = get_ip_local_port_range(); the report is assembled
\* and returned to main
BuildRange ==
    /\ pc = "build_range"
    /\ \E src \in RangeSources :
         /\ range_src' = Some(src)
         /\ report' = Some(AssembleReport(docker_meta[1], records[1],
                                          GetIpLocalPortRange(src)))
    /\ pc' = "write_json"
    /\ UNCHANGED <<args, listing, docker_run, docker_map, docker_meta, connections,
                   records, json_file, html_file, connects, exit_code, is_free, appvars>>

\* main: write_json_report(report, json_path)
WriteJson ==
    /\ pc = "write_json"
    /\ json_file' = Some(JsonDocument(report[1]))
    /\ pc' = "html"
    /\ UNCHANGED <<args, listing, docker_run, docker_map, docker_meta, connections,
                   records, range_src, report, html_file, connects, exit_code, is_free, appvars>>

\* variant that writes the HTML page whether asked for or not
WriteHtmlAlways ==
    /\ pc = "html"
    /\ html_file' = Some(HtmlDocument(report[1]))
    /\ pc' = "check_port"
    /\ UNCHANGED <<args, listing, docker_run, docker_map, docker_meta, connections,
                   records, range_src, report, json_file, connects, exit_code, is_free, appvars>>

\* main: if args.html: generate_html_report(report, html_path)
WriteHtml ==
    /\ pc = "html"
    /\ html_file' = IF args[1].html THEN Some(HtmlDocument(report[1])) ELSE html_file
    /\ pc' = "check_port"
    /\ UNCHANGED <<args, listing, docker_run, docker_map, docker_meta, connections,
                   records, range_src, report, json_file, connects, exit_code, is_free, appvars>>

\* variant with the two exit codes exchanged
ExitCodeForInverted(free) == IF free THEN 1 ELSE 0

\* the exit code main returns after a port check
ExitCodeFor(free) == IF free THEN 0 ELSE 1

\* is_free = check_port_free(host, port), then return 0 or 1
PortCheckReturns(free) ==
    /\ is_free' = Some(free)
    /\ exit_code' = Some(ExitCodeFor(free))

\* main: if args.check_port is not None: the check decides the exit code
PortCheck ==
    /\ pc = "check_port"
    /\ args[1].check_port # None
    /\ \E kind \in ConnectKinds :
         /\ connects' = Append(connects, kind)
         /\ PortCheckReturns(CheckPortFree(kind))
    /\ pc' = "done"
    /\ UNCHANGED <<args, listing, docker_run, docker_map, docker_meta, connections,
                   records, range_src, report, json_file, html_file, appvars>>

\* main: no --check-port: return 0
ReturnZero ==
    /\ pc = "check_port"
    /\ args[1].check_port = None
    /\ exit_code' = Some(0)
    /\ pc' = "done"
    /\ UNCHANGED <<args, listing, docker_run, docker_map, docker_meta, connections,
                   records, range_src, report, json_file, html_file, connects, is_free, appvars>>

Next ==
    \/ ParseArgs
    \/ BuildDocker
    \/ BuildPorts
    \/ BuildPortsRaises
    \/ BuildRange
    \/ WriteJson
    \/ WriteHtml
    \/ PortCheck
    \/ ReturnZero

Spec == Init /\ [][Next]_vars

(***************************************************************************)
(* app/config.py: Settings.from_env and the cached get_settings.           *)
(*                                                                         *)
(* The environment is a record of the variables from_env reads, each None  *)
(* (unset) or its text.  A Settings object is [id, value]: id tells two    *)
(* objects of equal value apart, as `is` does.                             *)
(***************************************************************************)
\* os.getenv(name, default)
GetenvOr(env, name, default) == IF env[name] = None THEN default ELSE env[name][1]

\* [x.strip() for x in raw.split(",") if x.strip()] or None
ListOrNone(raw) ==
    IF StripNonEmpty(Split(raw, <<",">>)) = <<>> THEN None
    ELSE Some(StripNonEmpty(Split(raw, <<",">>)))

\* os.getenv("FRITZBOX_HOSTS") or os.getenv("FRITZBOX_HOST", "")
RawFritzHosts(env) ==
    IF env.FRITZBOX_HOSTS # None /\ env.FRITZBOX_HOSTS # Some(<<>>)
    THEN env.FRITZBOX_HOSTS[1]
    ELSE GetenvOr(env, "FRITZBOX_HOST", <<>>)

\* Settings.from_env()
FromEnv(env) ==
    [ha_base_url |-> env.HA_BASE_URL,
     ha_token |-> env.HA_TOKEN,
     fritzbox_hosts |-> ListOrNone(RawFritzHosts(env)),
     fritzbox_username |-> env.FRITZBOX_USERNAME,
     fritzbox_password |-> env.FRITZBOX_PASSWORD,
     nvme_devices |-> ListOrNone(GetenvOr(env, "NVME_DEVICES", <<>>))]

\* variant of the cache that holds nothing
NeverCached(cache, fresh) == fresh

\* lru_cache(maxsize=1) around a function of no argument: the object of the
\* first call, for every call
CachedOrNew(cache, fresh) == IF cache # None THEN cache[1] ELSE fresh

\* the object a call of get_settings returns, n calls having been made before
SettingsObject(cache, env, n) ==
    CachedOrNew(cache, [id |-> n + 1, value |-> FromEnv(env)])

\* get_settings() called by caller
GetSettingsReturns(caller, obj) ==
    /\ settings_cache' = Some(obj)
    /\ calls' = Append(calls, [caller |-> caller, env |-> environ, obj |-> obj])

GetSettings(caller) ==
    /\ Len(calls) < MaxCalls
    /\ GetSettingsReturns(caller, SettingsObject(settings_cache, environ, Len(calls)))

\* texts of the environment
UrlA == <<"h", "a">>
UrlB == <<"h", "b">>
HaUrls == {UrlA, UrlB}
\* "n0"
DevN0 == <<"n", "0">>
\* "n1"
DevN1 == <<"n", "1">>
\* "h0"
HostH0 == <<"h", "0">>
\* "h1"
HostH1 == <<"h", "1">>

(***************************************************************************)
(* SpecSettings: a process that sets HA_BASE_URL and calls get_settings,   *)
(* in any order; importing app.services.ha_monitor is one such call.       *)
(***************************************************************************)
InitSettings ==
    /\ pc = "settings"
    /\ Idle
    /\ \E url \in {None} \cup {Some(u) : u \in HaUrls} :
         environ = [NoEnviron EXCEPT !.HA_BASE_URL = url]
    /\ settings_cache = None
    /\ calls = <<>>
    /\ nvme_reads = <<>> /\ nvme_statuses = <<>> /\ nvme_response = None
    /\ pings = <<>> /\ fritz_statuses = <<>> /\ fritz_result = None

\* monkeypatch.setenv("HA_BASE_URL", url), or any assignment to os.environ
SetEnv ==
    /\ pc = "settings"
    /\ \E url \in HaUrls : environ' = [environ EXCEPT !.HA_BASE_URL = Some(url)]
    /\ UNCHANGED <<pc, reportvars, settings_cache, calls, nvme_reads, nvme_statuses,
                   nvme_response, pings, fritz_statuses, fritz_result>>

\* a call of get_settings()
GetSettingsCall ==
    /\ pc = "settings"
    /\ GetSettings("call")
    /\ UNCHANGED <<pc, reportvars, environ, nvme_reads, nvme_statuses,
                   nvme_response, pings, fritz_statuses, fritz_result>>

\* import app.services.ha_monitor: settings = get_settings() at module level,
\* executed once
HaMonitorImport ==
    /\ pc = "settings"
    /\ \A i \in 1..Len(calls) : calls[i].caller # "ha_monitor"
    /\ GetSettings("ha_monitor")
    /\ UNCHANGED <<pc, reportvars, environ, nvme_reads, nvme_statuses,
                   nvme_response, pings, fritz_statuses, fritz_result>>

NextSettings == SetEnv \/ GetSettingsCall \/ HaMonitorImport

SpecSettings == InitSettings /\ [][NextSettings]_vars

(***************************************************************************)
(* app/services/nvme_monitor.py, app/models/nvme.py, app/api/nvme.py.      *)
(***************************************************************************)
\* the threshold of is_critical
WARNING_TEMP_C == 70

TemperatureText == <<"t", "e", "m", "p", "e", "r", "a", "t", "u", "r", "e">>

\* the first position from i on that holds no whitespace
RECURSIVE SkipSpaces(_, _)
SkipSpaces(s, i) == IF i <= Len(s) /\ IsSpace(s[i]) THEN SkipSpaces(s, i + 1) ELSE i

\* the first position from i on that holds no digit
RECURSIVE SkipDigits(_, _)
SkipDigits(s, i) == IF i <= Len(s) /\ IsDigit(s[i]) THEN SkipDigits(s, i + 1) ELSE i

\* r"\s*:\s*(\d+)\s*C" from position a of the lower-cased text: the positions
\* of the group, or ok = FALSE
TempGroupFrom(low, colon) ==
    IF colon > Len(low) \/ low[colon] # ":" THEN [ok |-> FALSE, from |-> 0, to |-> 0]
    ELSE LET b == SkipSpaces(low, colon + 1)
             c == SkipDigits(low, b)
             d == SkipSpaces(low, c)
         IN  IF c > b /\ d <= Len(low) /\ low[d] = "c"
             THEN [ok |-> TRUE, from |-> b, to |-> c - 1]
             ELSE [ok |-> FALSE, from |-> 0, to |-> 0]

\* the pattern matched at an occurrence i of "temperature"
TempMatchAt(low, i) == TempGroupFrom(low, SkipSpaces(low, i + Len(TemperatureText)))

\* _NVME_TEMP_PATTERN.search(stdout) with re.IGNORECASE: group(1) of the
\* leftmost match, or None
TempSearchIn(stdout, low, starts) ==
    IF starts = {} THEN None
    ELSE Some(SubSeq(stdout, TempMatchAt(low, SetMin(starts)).from,
                     TempMatchAt(low, SetMin(starts)).to))

TempSearchLow(stdout, low) ==
    TempSearchIn(stdout, low,
                 {i \in Occurrences(low, TemperatureText) : TempMatchAt(low, i).ok})

TempSearch(stdout) == TempSearchLow(stdout, Lower(stdout))

\* the RuntimeError messages of _read_nvme_temperature: the text, and the
\* device it names if it names one
NvmeCliMissing ==
    [msg |-> "nvme-cli binary not found; install nvme-cli on the host", device |-> None]
NvmeLogFailed(device) == [msg |-> "nvme smart-log failed for", device |-> Some(device)]
NvmeNotParsable(device) ==
    [msg |-> "Could not parse temperature for", device |-> Some(device)]

\* the end of _read_nvme_temperature, match being the result of the search
NvmeTempOf(device, match) ==
    IF match = None
    THEN [raised |-> TRUE, error |-> Some(NvmeNotParsable(device)), temp |-> 0]
    ELSE [raised |-> FALSE, error |-> None, temp |-> DigitsValue(match[1], 0)]

\* _read_nvme_temperature(device), run being how subprocess.run ended:
\* the temperature, or the RuntimeError raised
ReadNvmeTemperature(device, run) ==
    IF run.kind = "missing"
    THEN [raised |-> TRUE, error |-> Some(NvmeCliMissing), temp |-> 0]
    ELSE IF run.kind = "failed"
    THEN [raised |-> TRUE, error |-> Some(NvmeLogFailed(device)), temp |-> 0]
    ELSE NvmeTempOf(device, TempSearch(run.stdout))

\* the Field constraints of NvmeDeviceStatus.temperature_celsius
NvmeTemperatureValid(temp) == temp >= -20 /\ temp <= 130

\* NvmeDeviceStatus(device=..., temperature_celsius=temp, is_critical=...)
NvmeDeviceStatus(device, temp) ==
    [device |-> device, temperature_celsius |-> temp,
     is_critical |-> temp >= WARNING_TEMP_C]

\* settings.nvme_devices or []
NvmeDevices(settings) ==
    IF settings.nvme_devices = None THEN <<>> ELSE settings.nvme_devices[1]

\* the answers of the endpoint
NvmeOk(statuses) == [status_code |-> 200, detail |-> None, body |-> statuses]
\* except RuntimeError: HTTPException(status_code=503, detail=str(exc))
NvmeUnavailable(error, statuses) ==
    [status_code |-> 503, detail |-> Some(error), body |-> <<>>]
\* an exception the endpoint does not catch: the server's 500
NvmeServerError == [status_code |-> 500, detail |-> None, body |-> <<>>]

\* what `nvme smart-log` prints: a line before the temperature line
NvmeLog(label, digits, unit) ==
    <<"w", SP, ":", SP, "0", NL>> \o label \o <<SP, ":", SP>> \o digits
        \o <<SP, unit, NL>>

\* how a call of `nvme smart-log <device>` ends
NvmeRuns ==
    { [kind |-> "missing", stdout |-> <<>>],
      [kind |-> "failed", stdout |-> <<>>],
      [kind |-> "ok", stdout |-> NvmeLog(TemperatureText, <<"4", "5">>, "C")],
      [kind |-> "ok",
       stdout |-> NvmeLog(<<"T">> \o Tail(TemperatureText), <<"7", "0">>, "C")],
      [kind |-> "ok", stdout |-> NvmeLog(TemperatureText, <<"6", "9">>, "C")],
      [kind |-> "ok", stdout |-> NvmeLog(TemperatureText, <<"1", "3", "1">>, "C")],
      [kind |-> "ok", stdout |-> NvmeLog(TemperatureText, <<"3", "1", "8">>, "K")] }

\* NVME_DEVICES: unset, empty, one device, two and three devices with blanks
\* and empty items around
NvmeDeviceTexts ==
    { None, Some(<<>>), Some(DevN0), Some(DevN0 \o <<",", SP>> \o DevN1),
      Some(DevN1 \o <<",", ",", SP>> \o DevN0 \o <<SP>>),
      Some(DevN0 \o <<",">> \o DevN1 \o <<",">> \o DevN0) }

(***************************************************************************)
(* SpecNvme: one GET /nvme/status.                                         *)
(***************************************************************************)
InitNvme ==
    /\ pc = "nvme_request"
    /\ Idle
    /\ \E devs \in NvmeDeviceTexts : environ = [NoEnviron EXCEPT !.NVME_DEVICES = devs]
    /\ settings_cache = None
    /\ calls = <<>>
    /\ nvme_reads = <<>> /\ nvme_statuses = <<>> /\ nvme_response = None
    /\ pings = <<>> /\ fritz_statuses = <<>> /\ fritz_result = None

\* get_nvme_status: settings = get_settings()
NvmeSettings ==
    /\ pc = "nvme_request"
    /\ GetSettings("get_nvme_status")
    /\ pc' = "nvme_loop"
    /\ UNCHANGED <<reportvars, environ, nvme_reads, nvme_statuses, nvme_response,
                   pings, fritz_statuses, fritz_result>>

\* the device of the next iteration of the loop
NvmeNextDevice == NvmeDevices(settings_cache[1].value)[Len(nvme_reads) + 1]

NvmeLoopRunning ==
    /\ pc = "nvme_loop"
    /\ Len(nvme_reads) < Len(NvmeDevices(settings_cache[1].value))

\* an iteration whose read returns a temperature the status model accepts
NvmeIterationAppends(run, r) ==
    /\ ~r.raised
    /\ NvmeTemperatureValid(r.temp)
    /\ nvme_reads' = Append(nvme_reads, run)
    /\ nvme_statuses' = Append(nvme_statuses, NvmeDeviceStatus(NvmeNextDevice, r.temp))

NvmeReadOk ==
    /\ NvmeLoopRunning
    /\ \E run \in NvmeRuns :
         NvmeIterationAppends(run, ReadNvmeTemperature(NvmeNextDevice, run))
    /\ UNCHANGED <<pc, reportvars, environ, settings_cache, calls, nvme_response,
                   pings, fritz_statuses, fritz_result>>

\* an iteration whose read raises RuntimeError: the endpoint answers 503
NvmeIterationRaises(run, r) ==
    /\ r.raised
    /\ nvme_reads' = Append(nvme_reads, run)
    /\ nvme_response' = Some(NvmeUnavailable(r.error[1], nvme_statuses))

NvmeReadRaises ==
    /\ NvmeLoopRunning
    /\ \E run \in NvmeRuns :
         NvmeIterationRaises(run, ReadNvmeTemperature(NvmeNextDevice, run))
    /\ pc' = "nvme_done"
    /\ UNCHANGED <<reportvars, environ, settings_cache, calls, nvme_statuses,
                   pings, fritz_statuses, fritz_result>>

\* an iteration whose temperature NvmeDeviceStatus rejects: the
\* ValidationError is no RuntimeError and leaves the endpoint
NvmeIterationInvalid(run, r) ==
    /\ ~r.raised
    /\ ~NvmeTemperatureValid(r.temp)
    /\ nvme_reads' = Append(nvme_reads, run)
    /\ nvme_response' = Some(NvmeServerError)

NvmeStatusInvalid ==
    /\ NvmeLoopRunning
    /\ \E run \in NvmeRuns :
         NvmeIterationInvalid(run, ReadNvmeTemperature(NvmeNextDevice, run))
    /\ pc' = "nvme_done"
    /\ UNCHANGED <<reportvars, environ, settings_cache, calls, nvme_statuses,
                   pings, fritz_statuses, fritz_result>>

\* the loop is over: return statuses, answered with 200
NvmeReturn ==
    /\ pc = "nvme_loop"
    /\ Len(nvme_reads) = Len(NvmeDevices(settings_cache[1].value))
    /\ nvme_response' = Some(NvmeOk(nvme_statuses))
    /\ pc' = "nvme_done"
    /\ UNCHANGED <<reportvars, environ, settings_cache, calls, nvme_reads,
                   nvme_statuses, pings, fritz_statuses, fritz_result>>

NextNvme == NvmeSettings \/ NvmeReadOk \/ NvmeReadRaises \/ NvmeStatusInvalid \/ NvmeReturn

SpecNvme == InitNvme /\ [][NextNvme]_vars

(***************************************************************************)
(* app/services/fritz_monitor.py, app/models/fritz.py.                     *)
(***************************************************************************)
\* "time="
TimeEq == <<"t", "i", "m", "e", "=">>
\* " ms"
SpMs == <<SP, "m", "s">>

\* float(value_str) for what ping prints, an unsigned decimal: the digits
\* before and after the point; ok = FALSE is the ValueError
FloatOfParts(parts) ==
    IF Len(parts) > 2 \/ Join(parts, <<>>) = <<>>
       \/ \E i \in 1..Len(Join(parts, <<>>)) : ~IsDigit(Join(parts, <<>>)[i])
    THEN [ok |-> FALSE, whole |-> 0, frac |-> <<>>]
    ELSE [ok |-> TRUE, whole |-> DigitsValue(parts[1], 0),
          frac |-> IF Len(parts) = 2 THEN parts[2] ELSE <<>>]

ParseFloat(s) == FloatOfParts(Split(Strip(s), <<".">>))

\* latency_ms = float(value_str), or None on ValueError
LatencyOfValue(f) == IF f.ok THEN Some([whole |-> f.whole, frac |-> f.frac]) ELSE None

\* line.split("time=", 1)[1].split(" ", 1)[0]
LatencyOfLine(line) ==
    LatencyOfValue(ParseFloat(Split1(Split1(line, TimeEq)[2], <<SP>>)[1]))

\* the loop over the lines: the first line with "time=" and " ms" decides
RECURSIVE LatencyOfLines(_)
LatencyOfLines(lines) ==
    IF lines = <<>> THEN None
    ELSE IF Contains(Head(lines), TimeEq) /\ Contains(Head(lines), SpMs)
    THEN LatencyOfLine(Head(lines))
    ELSE LatencyOfLines(Tail(lines))

FritzHostStatus(host, is_up, latency_ms, error) ==
    [host |-> host, is_up |-> is_up, latency_ms |-> latency_ms, error |-> error]

\* except FileNotFoundError
PingMissing(host) ==
    FritzHostStatus(host, FALSE, None,
                    Some([msg |-> "ping binary not found on host system",
                          returncode |-> None]))

\* variant that reports a host up whatever the return code
PingFailedUp(host, returncode) ==
    FritzHostStatus(host, TRUE, None,
                    Some([msg |-> "ping failed with return code",
                          returncode |-> Some(returncode)]))

\* if result.returncode != 0
PingFailed(host, returncode) ==
    FritzHostStatus(host, FALSE, None,
                    Some([msg |-> "ping failed with return code",
                          returncode |-> Some(returncode)]))

PingReplied(host, stdout) ==
    FritzHostStatus(host, TRUE, LatencyOfLines(SplitLines(stdout)), None)

\* _ping_host(host), run being how subprocess.run(check=False) ended
PingHost(host, run) ==
    IF run.kind = "missing" THEN PingMissing(host)
    ELSE IF run.returncode # 0 THEN PingFailed(host, run.returncode)
    ELSE PingReplied(host, run.stdout)

\* settings.fritzbox_hosts or []
FritzHosts(settings) ==
    IF settings.fritzbox_hosts = None THEN <<>> ELSE settings.fritzbox_hosts[1]

\* "64 bytes: icmp_seq=1 time=<value> ms"
PingReply(value) ==
    <<"P", "I", "N", "G", NL, "6", "4", SP, "b", ":", SP, "s", "=", "1", SP>>
        \o TimeEq \o value \o SpMs \o <<NL>>

\* how a call of `ping -c 1 -W 1 <host>` ends
PingRuns ==
    { [kind |-> "missing", returncode |-> 0, stdout |-> <<>>],
      [kind |-> "ok", returncode |-> 1, stdout |-> <<"P", "I", "N", "G", NL>>],
      [kind |-> "ok", returncode |-> 2, stdout |-> <<>>],
      [kind |-> "ok", returncode |-> 0, stdout |-> PingReply(<<"2", ".", "3", "4">>)],
      [kind |-> "ok", returncode |-> 0, stdout |-> PingReply(<<"1", "2">>)],
      [kind |-> "ok", returncode |-> 0, stdout |-> PingReply(<<"x">>)],
      [kind |-> "ok", returncode |-> 0, stdout |-> <<"P", "I", "N", "G", NL>>] }

\* FRITZBOX_HOSTS and the older FRITZBOX_HOST
FritzHostTexts ==
    { [hosts |-> None, host |-> None],
      [hosts |-> None, host |-> Some(HostH0)],
      [hosts |-> Some(<<>>), host |-> Some(HostH1)],
      [hosts |-> Some(HostH0 \o <<",", SP>> \o HostH1), host |-> Some(HostH1)],
      [hosts |-> Some(HostH1 \o <<",", ",">> \o HostH0 \o <<SP>>), host |-> None] }

(***************************************************************************)
(* SpecFritz: one call of get_fritz_status.                                *)
(***************************************************************************)
InitFritz ==
    /\ pc = "fritz_request"
    /\ Idle
    /\ \E t \in FritzHostTexts :
         environ = [NoEnviron EXCEPT !.FRITZBOX_HOSTS = t.hosts, !.FRITZBOX_HOST = t.host]
    /\ settings_cache = None
    /\ calls = <<>>
    /\ nvme_reads = <<>> /\ nvme_statuses = <<>> /\ nvme_response = None
    /\ pings = <<>> /\ fritz_statuses = <<>> /\ fritz_result = None

\* get_fritz_status: settings = get_settings()
FritzSettings ==
    /\ pc = "fritz_request"
    /\ GetSettings("get_fritz_status")
    /\ pc' = "fritz_loop"
    /\ UNCHANGED <<reportvars, environ, nvme_reads, nvme_statuses, nvme_response,
                   pings, fritz_statuses, fritz_result>>

\* an iteration of the loop over the hosts: status = _ping_host(host)
FritzAppend(run, status) ==
    /\ pings' = Append(pings, run)
    /\ fritz_statuses' = Append(fritz_statuses, status)

FritzIteration ==
    /\ pc = "fritz_loop"
    /\ Len(pings) < Len(FritzHosts(settings_cache[1].value))
    /\ \E run \in PingRuns :
         FritzAppend(run, PingHost(FritzHosts(settings_cache[1].value)[Len(pings) + 1],
                                   run))
    /\ UNCHANGED <<pc, reportvars, environ, settings_cache, calls, nvme_reads,
                   nvme_statuses, nvme_response, fritz_result>>

\* return statuses
FritzReturn ==
    /\ pc = "fritz_loop"
    /\ Len(pings) = Len(FritzHosts(settings_cache[1].value))
    /\ fritz_result' = Some(fritz_statuses)
    /\ pc' = "fritz_done"
    /\ UNCHANGED <<reportvars, environ, settings_cache, calls, nvme_reads,
                   nvme_statuses, nvme_response, pings, fritz_statuses>>

NextFritz == FritzSettings \/ FritzIteration \/ FritzReturn

SpecFritz == InitFritz /\ [][NextFritz]_vars

(***************************************************************************)
(* Properties of collect_docker_port_mappings, under SpecDocker.           *)
(***************************************************************************)
DockerListedDone ==
    pc = "docker_collected" /\ docker_run # None /\ docker_run[1].kind = "ok"

\* C1: for a listing whose output has N lines of four tab-separated fields
\* each (the ports field possibly empty on any line, the last included),
\* containers_total = N.
C1_TotalIsLineCount ==
    DockerListedDone => docker_meta[1].containers_total = Len(listing)

\* a container line contributes a mapping entry: one of its entries publishes
LinePublishes(c) == \E j \in 1..Len(c.entries) : ParseEntry(c.entries[j]).ok

EntryPositions(cs) ==
    UNION {{<<i, j>> : j \in 1..Len(cs[i].entries)} : i \in 1..Len(cs)}

EntryAt(cs, p) == cs[p[1]].entries[p[2]]

\* p comes before q in listing order
PosBefore(p, q) == p[1] < q[1] \/ (p[1] = q[1] /\ p[2] < q[2])

\* the positions of the entries that produce a key
KeyedPositions(cs) == {p \in EntryPositions(cs) : ParseEntry(EntryAt(cs, p)).ok}

\* the mapping entry the port entry at position p stands for
InfoAt(cs, p) ==
    [container_name |-> cs[p[1]].name, container_id |-> cs[p[1]].cid,
     image |-> cs[p[1]].image, port_spec |-> EntryAt(cs, p),
     container_port |-> ParseEntry(EntryAt(cs, p)).container_port]

\* the last position in listing order that produces the key k
LastPosition(cs, k) ==
    CHOOSE p \in KeyedPositions(cs) :
        /\ ParseEntry(EntryAt(cs, p)).key = k
        /\ \A q \in KeyedPositions(cs) :
             ParseEntry(EntryAt(cs, q)).key = k => (q = p \/ PosBefore(q, p))

\* C12: the mapping has one entry for every key the listing produces, and
\* when several port entries (of one line or of several lines) produce the
\* same key, the entry holds the container name, id, image, port spec and
\* container port of the one seen last in listing order.
C12_LastEntryWins ==
    DockerListedDone =>
        /\ DOMAIN docker_map =
               {ParseEntry(EntryAt(listing, p)).key : p \in KeyedPositions(listing)}
        /\ \A k \in DOMAIN docker_map :
               docker_map[k] = InfoAt(listing, LastPosition(listing, k))

\* C12 witness: two port entries that differ produce one key, and the mapping
\* holds the later one.
C12_Witness ==
    /\ DockerListedDone
    /\ \E p, q \in KeyedPositions(listing) :
         /\ PosBefore(p, q)
         /\ ParseEntry(EntryAt(listing, p)).key = ParseEntry(EntryAt(listing, q)).key
         /\ InfoAt(listing, p) # InfoAt(listing, q)
         /\ docker_map[ParseEntry(EntryAt(listing, q)).key] = InfoAt(listing, q)

\* the text of a port entry before its first "->"
HostSide(entry) == Strip(Split1(entry, ARROW)[1])

\* the entry has the arrow, a colon in its host side and an integer after the
\* last colon of the host side
ArrowColonInteger(entry) ==
    /\ Contains(entry, ARROW)
    /\ Contains(HostSide(entry), <<":">>)
    /\ ParseInt(RSplit1(HostSide(entry), <<":">>)[2]).ok

HostPortOf(entry) == ParseInt(RSplit1(HostSide(entry), <<":">>)[2]).val

\* C16: a port entry contributes a mapping entry, and marks its container as
\* publishing, exactly when it has the arrow, a colon in its host side and an
\* integer after the last colon; any other entry is skipped by itself and the
\* entries after it in the line are still processed.
C16_EntryRelevance ==
    DockerListedDone =>
        /\ \A p \in EntryPositions(listing) :
               ArrowColonInteger(EntryAt(listing, p)) =>
                   \E k \in DOMAIN docker_map : k[3] = HostPortOf(EntryAt(listing, p))
        /\ \A k \in DOMAIN docker_map :
               /\ ArrowColonInteger(docker_map[k].port_spec)
               /\ \E p \in EntryPositions(listing) :
                      /\ EntryAt(listing, p) = docker_map[k].port_spec
                      /\ listing[p[1]].cid = docker_map[k].container_id
        /\ docker_meta[1].containers_with_published_ports =
               Cardinality({listing[p[1]].name :
                              p \in {q \in EntryPositions(listing) :
                                        ArrowColonInteger(EntryAt(listing, q))}})

\* C16 witness: a line whose first entry has the arrow and is skipped and
\* whose second entry is in the mapping.
C16_Witness ==
    /\ DockerListedDone
    /\ \E i \in 1..Len(listing) :
         /\ Len(listing[i].entries) = 2
         /\ Contains(listing[i].entries[1], ARROW)
         /\ ~ArrowColonInteger(listing[i].entries[1])
         /\ \E k \in DOMAIN docker_map :
                /\ docker_map[k].port_spec = listing[i].entries[2]
                /\ docker_map[k].container_id = listing[i].cid
    /\ docker_meta[1].containers_with_published_ports = 1

(***************************************************************************)
(* Properties of collect_port_usage, under SpecPorts.                      *)
(***************************************************************************)
PortsDone == pc = "ports_collected"

\* the record r is the one of the socket-table entry c
RecordOfSocket(r, c) ==
    /\ r.proto = ProtoOf(c.type)
    /\ r.ip = c.laddr[1].ip
    /\ r.port = c.laddr[1].port
    /\ r.pid = c.pid

AllNull(r) == r.process = None /\ r.cmdline = None /\ r.user = None

\* C2: a listening socket with a process id one of whose three lookups fails
\* has a record with process, cmdline and user all null, and no record mixes
\* resolved and null fields.
C2_FailedLookupAllNull ==
    PortsDone =>
        /\ \A i \in 1..Len(connections[1]) :
             LET c == connections[1][i]
             IN  (Listening(c) /\ c.pid # None /\ c.lookup # "ok") =>
                     \E j \in 1..Len(records[1]) :
                         RecordOfSocket(records[1][j], c) /\ AllNull(records[1][j])
        /\ \A j \in 1..Len(records[1]) :
             LET r == records[1][j]
             IN  (r.process = None) = (r.cmdline = None)
                 /\ (r.cmdline = None) = (r.user = None)

\* the enumeration in another order
Reordered(conns, f) == [i \in 1..Len(conns) |-> conns[f[i]]]

\* C3: the same socket entries enumerated in any other order give the same
\* sequence of records.
C3_OrderIndependent ==
    PortsDone =>
        \A f \in Permutations(1..Len(connections[1])) :
            CollectPortUsage(Reordered(connections[1], f), docker_map) = records[1]

DockerFields ==
    {"docker_container_name", "docker_container_id", "docker_image",
     "docker_port_spec", "docker_container_port"}

HasAllDocker(r) == DockerFields \subseteq DOMAIN r
HasNoDocker(r) == DockerFields \cap DOMAIN r = {}

\* C4: a record carries the five docker_* fields exactly when the key
\* (proto, ip, port) of its socket is in the container mapping, with that
\* entry's values, and carries none of them otherwise; every listening socket
\* has its record.
C4_DockerFieldsIffExactKey ==
    PortsDone =>
        /\ \A j \in 1..Len(records[1]) :
             LET r == records[1][j]
                 key == <<r.proto, r.ip, r.port>>
             IN  IF key \in DOMAIN docker_map
                 THEN /\ HasAllDocker(r)
                      /\ r.docker_container_name = docker_map[key].container_name
                      /\ r.docker_container_id = docker_map[key].container_id
                      /\ r.docker_image = docker_map[key].image
                      /\ r.docker_port_spec = docker_map[key].port_spec
                      /\ r.docker_container_port = docker_map[key].container_port
                 ELSE HasNoDocker(r)
        /\ \A i \in 1..Len(connections[1]) :
             Listening(connections[1][i]) =>
                 \E j \in 1..Len(records[1]) :
                     RecordOfSocket(records[1][j], connections[1][i])

\* C4 witness: a record with the container fields next to a record without,
\* on the same protocol and port and another address.
C4_Witness ==
    /\ PortsDone
    /\ \E j, k \in 1..Len(records[1]) :
         /\ HasAllDocker(records[1][j])
         /\ HasNoDocker(records[1][k])
         /\ records[1][j].proto = records[1][k].proto
         /\ records[1][j].port = records[1][k].port
         /\ records[1][j].ip # records[1][k].ip

\* A before B in the claimed order, strictly
StrictlyBefore(a, b) ==
    \/ StrLess(a.proto, b.proto)
    \/ a.proto = b.proto /\ a.port < b.port
    \/ a.proto = b.proto /\ a.port = b.port /\ StrLess(a.ip, b.ip)

\* C9 as stated: any record A positioned before a record B is strictly less
\* by (proto, port, ip).
C9_StrictlySorted ==
    PortsDone =>
        \A i, j \in 1..Len(records[1]) :
            i < j => StrictlyBefore(records[1][i], records[1][j])

\* C9 as amended: A is strictly less than B, or A and B have the same proto,
\* port and ip (several sockets on one address).
C9_Sorted ==
    PortsDone =>
        \A i, j \in 1..Len(records[1]) :
            i < j =>
                \/ StrictlyBefore(records[1][i], records[1][j])
                \/ /\ records[1][i].proto = records[1][j].proto
                   /\ records[1][i].port = records[1][j].port
                   /\ records[1][i].ip = records[1][j].ip

\* C9 witness: the sort moved a record: of two sockets of one protocol the
\* enumeration had the one with the numerically greater port first.
C9_Witness ==
    /\ PortsDone
    /\ Len(records[1]) = 2
    /\ records[1] # RecordLoop(connections[1], docker_map)
    /\ records[1][1].proto = records[1][2].proto
    /\ records[1][1].port < records[1][2].port

\* the enumeration in which the lookups of entry i succeed
LookupSucceeds(conns, i) == [conns EXCEPT ![i].lookup = "ok"]

\* r and s are one record but for process, cmdline and user
SameButAttribution(r, s) ==
    /\ DOMAIN r = DOMAIN s
    /\ \A f \in DOMAIN r \ {"process", "cmdline", "user"} : r[f] = s[f]

\* C11: a failing per-process lookup does not abort the enumeration: the
\* socket still has its record with proto, ip, port, status and pid, and the
\* records of all other sockets are those of the run in which the lookup
\* succeeds.
C11_LookupFailureIsolated ==
    PortsDone =>
        \A i \in 1..Len(connections[1]) :
            LET c == connections[1][i]
                other == CollectPortUsage(LookupSucceeds(connections[1], i), docker_map)
            IN  (c.status = CONN_LISTEN /\ c.laddr # None /\ c.pid # None
                    /\ c.lookup # "ok") =>
                    /\ \E j \in 1..Len(records[1]) :
                         /\ RecordOfSocket(records[1][j], c)
                         /\ records[1][j].status = c.status
                    /\ Len(records[1]) = Len(other)
                    /\ \A j \in 1..Len(records[1]) :
                         /\ SameButAttribution(records[1][j], other[j])
                         /\ records[1][j] # other[j] => RecordOfSocket(records[1][j], c)

\* C11 witness: a socket whose process lookup fails, enumerated with a socket
\* of another process whose lookups succeed; both have their record.
C11_Witness ==
    /\ PortsDone
    /\ Len(connections[1]) = 2
    /\ Len(records[1]) = 2
    /\ \E i \in 1..2 : connections[1][i].lookup = "process_raises"
    /\ \E j \in 1..2 : records[1][j].pid = Some(2) /\ records[1][j].user # None

\* an entry with the listening status and a local address
IsListener(c) == c.status = CONN_LISTEN /\ c.laddr # None

\* the protocol tag of a socket type
TagOfType(type) ==
    CASE type = "SOCK_STREAM" -> TCP [] type = "SOCK_DGRAM" -> UDP [] OTHER -> ProtoOther

\* C18: the records are, one for one, the enumerated entries with the
\* listening status and a local IP and port, each with the tag tcp, udp or
\* other of its socket type; no other entry has a record.
C18_RecordsAreListeners ==
    PortsDone =>
        LET L == SelectSeq(connections[1], IsListener)
        IN  /\ Len(records[1]) = Len(L)
            /\ \E f \in Permutations(1..Len(L)) :
                   \A j \in 1..Len(L) :
                       /\ records[1][j].status = CONN_LISTEN
                       /\ records[1][j].ip = L[f[j]].laddr[1].ip
                       /\ records[1][j].port = L[f[j]].laddr[1].port
                       /\ records[1][j].pid = L[f[j]].pid
                       /\ records[1][j].proto = TagOfType(L[f[j]].type)
                       /\ records[1][j].proto \in {TCP, UDP, ProtoOther}

\* C18 witness: of two entries, one that does not listen or has no address
\* and one listening socket that is neither stream nor datagram, the second
\* alone has a record.
C18_Witness ==
    /\ PortsDone
    /\ Len(connections[1]) = 2
    /\ \E i \in 1..2 : ~IsListener(connections[1][i])
    /\ Len(records[1]) = 1
    /\ records[1][1].proto = ProtoOther

(***************************************************************************)
(* Properties of a run of main, under Spec.                                *)
(***************************************************************************)
PortCheckDone == pc = "done" /\ args[1].check_port # None

\* C5: check_port_free returns True only when its one connection attempt was
\* refused for want of a listener; a connection, a timeout, an unreachable
\* host and a resolution failure all return False; one attempt per call.
C5_PortCheckFailsClosed ==
    PortCheckDone =>
        /\ Len(connects) = 1
        /\ is_free = Some(TRUE) => connects[1] = "refused"
        /\ connects[1] \in {"connected", "timed_out", "unreachable", "unresolved"}
               => is_free = Some(FALSE)

DockerUnavailable ==
    docker_run # None /\ docker_run[1].kind \in {"missing", "failed"}

ListeningCount(conns) == Cardinality({i \in 1..Len(conns) : Listening(conns[i])})

\* one record per listening socket, none with a docker_* field
PlainRecords(recs, conns) ==
    /\ Len(recs) = ListeningCount(conns)
    /\ \A i \in 1..Len(conns) :
         Listening(conns[i]) =>
             \E j \in 1..Len(recs) : RecordOfSocket(recs[j], conns[i])
    /\ \A j \in 1..Len(recs) : HasNoDocker(recs[j])

\* C6: with the docker command missing or exiting non-zero the collector
\* returns an empty mapping, available = false, an error string and zero
\* counters; nothing but the socket enumeration can then stop build_report,
\* and its report has every listening socket's record, none with a docker_*
\* field.
C6_DockerUnavailableReport ==
    DockerUnavailable =>
        /\ DOMAIN docker_map = {}
        /\ docker_meta[1].available = FALSE
        /\ docker_meta[1].error # None
        /\ docker_meta[1].containers_total = 0
        /\ docker_meta[1].containers_with_published_ports = 0
        /\ pc = "raised" => connections = None
        /\ records # None => PlainRecords(records[1], connections[1])
        /\ pc \in {"write_json", "html", "check_port", "done"} =>
               /\ report # None
               /\ report[1].docker = docker_meta[1]
               /\ PlainRecords(report[1].ports, connections[1])

\* C6 witness: a finished run without docker whose report has two records.
C6_Witness ==
    /\ pc = "done"
    /\ docker_run[1].kind = "missing"
    /\ Len(report[1].ports) = 2

\* C7: when the socket enumeration fails, the run ends with a non-zero
\* outcome, no report, no JSON file, no HTML file and no port check.
C7_EnumerationFailureNoOutput ==
    pc = "raised" =>
        /\ exit_code # None /\ exit_code # Some(0)
        /\ report = None
        /\ json_file = None
        /\ html_file = None
        /\ connects = <<>> /\ is_free = None

\* C7 witness: the enumeration failed in a run asked for the HTML page and
\* the port check.
C7_Witness ==
    /\ pc = "raised"
    /\ connections = None
    /\ args[1].html
    /\ args[1].check_port # None

\* C10: main returns 0 when the report was written and no port check was
\* asked for; with a port check it returns 0 exactly when check_port_free
\* returned True, and 1 otherwise.
C10_ExitCode ==
    pc = "done" =>
        /\ json_file # None
        /\ args[1].check_port = None => exit_code = Some(0) /\ connects = <<>>
        /\ args[1].check_port # None =>
               /\ is_free # None
               /\ (exit_code = Some(0)) = (is_free = Some(TRUE))
               /\ (exit_code = Some(1)) = (is_free = Some(FALSE))

\* C10 witness: a port check that returned False ended the run with 1.
C10_Witness ==
    /\ PortCheckDone
    /\ is_free = Some(FALSE)
    /\ exit_code = Some(1)

\* C17: the socket enumeration and the correlation start only when the
\* container collection has returned, its result is not touched by them, and
\* the records are those of the correlation with the mapping it returned.
C17_MappingBeforeJoin ==
    /\ [](connections # None =>
             /\ docker_run # None
             /\ DockerReturned(CollectDockerPortMappings(docker_run[1])))
    /\ [](records # None =>
             records[1] = CollectPortUsage(connections[1],
                                           CollectDockerPortMappings(docker_run[1]).mapping))
    /\ [][(connections' # connections \/ records' # records) =>
             /\ docker_meta # None
             /\ docker_map' = docker_map
             /\ docker_meta' = docker_meta]_vars

\* C17 witness: a finished run whose report has a record with the container
\* fields of the mapping.
C17_Witness ==
    /\ pc = "done"
    /\ DOMAIN docker_map # {}
    /\ \E j \in 1..Len(report[1].ports) : HasAllDocker(report[1].ports[j])

\* the content of the range source is two integers
TwoIntegers(src) ==
    /\ src.exists
    /\ src.readable
    /\ Len(SplitWhitespace(src.content)) = 2
    /\ ParseInt(SplitWhitespace(src.content)[1]).ok
    /\ ParseInt(SplitWhitespace(src.content)[2]).ok

\* C19: whatever the range source is, build_report returns its report:
\* ip_local_port_range is null when the source is absent, unreadable or not
\* two integers, low and high otherwise, and the other fields are populated.
C19_RangeNeverFails ==
    /\ range_src # None => pc # "raised" /\ report # None
    /\ pc \in {"write_json", "html", "check_port", "done"} => range_src # None
    /\ report # None =>
          /\ IF TwoIntegers(range_src[1])
             THEN report[1].ip_local_port_range =
                      Some([low |-> ParseInt(SplitWhitespace(range_src[1].content)[1]).val,
                            high |-> ParseInt(SplitWhitespace(range_src[1].content)[2]).val])
             ELSE report[1].ip_local_port_range = None
          /\ report[1].docker = docker_meta[1]
          /\ report[1].ports = records[1]
          /\ report[1].schema_version = "1.1.0"
          /\ report[1].host = "hostname"
          /\ report[1].generated_at = "now"

\* C19 witness: a finished run whose range source holds two tokens, the
\* second no integer: the range is null and the report has its two records.
C19_Witness ==
    /\ pc = "done"
    /\ range_src[1].readable
    /\ Len(SplitWhitespace(range_src[1].content)) = 2
    /\ ~TwoIntegers(range_src[1])
    /\ report[1].ip_local_port_range = None
    /\ Len(report[1].ports) = 2

\* C20: the report is built once and never changes; the JSON file is written
\* once, from the report; the HTML file is written at most once, only when
\* asked for, after the JSON file and from the same report; the port check
\* comes after the JSON file is written.
C20_ReportLifecycle ==
    /\ [][/\ report # None => report' = report
          /\ report' # report => pc = "build_range"
          /\ json_file' # json_file =>
                /\ json_file = None /\ html_file = None /\ connects = <<>>
                /\ report # None
                /\ json_file' = Some(JsonDocument(report[1]))
          /\ html_file' # html_file =>
                /\ html_file = None /\ connects = <<>>
                /\ args[1].html
                /\ json_file = Some(JsonDocument(report[1]))
                /\ html_file' = Some(HtmlDocument(report[1]))
          /\ connects' # connects =>
                /\ json_file = Some(JsonDocument(report[1]))
                /\ json_file' = json_file /\ html_file' = html_file]_vars
    /\ [](pc = "done" =>
             /\ json_file = Some(JsonDocument(report[1]))
             /\ IF args[1].html THEN html_file = Some(HtmlDocument(report[1]))
                ELSE html_file = None)

\* C20 witness: a finished run with the HTML page and a port check that found
\* the port occupied: both files hold the report.
C20_Witness ==
    /\ pc = "done"
    /\ args[1].html
    /\ is_free = Some(FALSE)
    /\ json_file = Some(JsonDocument(report[1]))
    /\ html_file = Some(HtmlDocument(report[1]))

(***************************************************************************)
(* Properties of get_settings, under SpecSettings.                         *)
(***************************************************************************)
\* the call was made with HA_BASE_URL set
MadeAfterSet(c) == c.env.HA_BASE_URL # None

\* C15 as stated: any two calls of get_settings made after the environment
\* variable has been set return the very same object, and it carries the
\* value the environment has.
C15_SameObjectWithEnvValues ==
    \A i, j \in 1..Len(calls) :
        (MadeAfterSet(calls[i]) /\ MadeAfterSet(calls[j])) =>
            /\ calls[i].obj.id = calls[j].obj.id
            /\ calls[i].obj.value.ha_base_url = calls[i].env.HA_BASE_URL

\* C15 as amended: any two calls return the very same object, and it carries
\* the values the environment had at the first call of the process.
C15_SameObjectWithFirstValues ==
    \A i, j \in 1..Len(calls) :
        /\ calls[i].obj = calls[j].obj
        /\ calls[i].obj.id = calls[1].obj.id
        /\ calls[i].obj.value = FromEnv(calls[1].env)
        /\ calls[i].obj.value.ha_base_url = calls[1].env.HA_BASE_URL

\* C15 witness: HA_BASE_URL is set, get_settings is called, HA_BASE_URL is
\* set to another value and get_settings is called again: the same object,
\* with the first value.
C15_Witness ==
    /\ Len(calls) >= 2
    /\ calls[1].env.HA_BASE_URL = Some(UrlA)
    /\ calls[2].env.HA_BASE_URL = Some(UrlB)
    /\ calls[2].obj = calls[1].obj
    /\ calls[2].obj.value.ha_base_url = Some(UrlA)

(***************************************************************************)
(* Properties of GET /nvme/status, under SpecNvme.                         *)
(***************************************************************************)
NvmeDone == pc = "nvme_done"

\* the devices the process is configured with
ConfiguredDevices == NvmeDevices(FromEnv(environ))

\* the read of a device failed: nvme-cli missing, non-zero exit, or no
\* temperature to be parsed from the output
NvmeReadFailed(run) ==
    \/ run.kind \in {"missing", "failed"}
    \/ run.kind = "ok" /\ TempSearch(run.stdout) = None

\* C13: when the read of a device fails the endpoint answers 503 with the
\* error in detail and no device list; otherwise it answers 200 with one
\* status per configured device, in configured order.
C13_NvmeStatusAnswer ==
    NvmeDone =>
        IF \E i \in 1..Len(nvme_reads) : NvmeReadFailed(nvme_reads[i])
        THEN /\ nvme_response[1].status_code = 503
             /\ nvme_response[1].detail # None
             /\ nvme_response[1].body = <<>>
        ELSE /\ nvme_response[1].status_code = 200
             /\ Len(nvme_response[1].body) = Len(ConfiguredDevices)
             /\ \A i \in 1..Len(ConfiguredDevices) :
                    nvme_response[1].body[i].device = ConfiguredDevices[i]

(***************************************************************************)
(* Properties of get_fritz_status, under SpecFritz.                        *)
(***************************************************************************)
FritzDone == pc = "fritz_done"

\* the hosts the process is configured with
ConfiguredHosts == FritzHosts(FromEnv(environ))

\* the ping failed: the binary is missing or the return code is not 0
PingFailure(run) == run.kind = "missing" \/ run.returncode # 0

\* C14: get_fritz_status returns one status per configured host, in
\* configured order (none when no host is configured); the status of a host
\* whose ping fails has is_up false, no latency and an error, and the status
\* of every host is that of its own ping alone.
C14_OneStatusPerHost ==
    /\ pc \in {"fritz_loop", "fritz_done"} => Len(fritz_statuses) = Len(pings)
    /\ FritzDone =>
          /\ fritz_result # None
          /\ Len(fritz_result[1]) = Len(ConfiguredHosts)
          /\ \A i \in 1..Len(ConfiguredHosts) :
                /\ fritz_result[1][i].host = ConfiguredHosts[i]
                /\ fritz_result[1][i] = PingHost(ConfiguredHosts[i], pings[i])
                /\ IF PingFailure(pings[i])
                   THEN /\ fritz_result[1][i].is_up = FALSE
                        /\ fritz_result[1][i].latency_ms = None
                        /\ fritz_result[1][i].error # None
                   ELSE /\ fritz_result[1][i].is_up = TRUE
                        /\ fritz_result[1][i].error = None

\* C14 witness: of two hosts the ping of the first fails and the second
\* replies with a latency.
C14_Witness ==
    /\ FritzDone
    /\ Len(fritz_result[1]) = 2
    /\ PingFailure(pings[1])
    /\ fritz_result[1][1].is_up = FALSE
    /\ fritz_result[1][2].is_up = TRUE
    /\ fritz_result[1][2].latency_ms # None

====
